---- MODULE Spec2Model ----
(***************************************************************************)
(* Wound-monitoring backend (backend/app): segmentation adapter, metric    *)
(* extraction, session store, trajectory/risk, simulation and the response *)
(* assembler, as state machines.                                           *)
(*                                                                         *)
(* Number representation (Python floats rounded by round(x, n)):           *)
(*   areas            integer tenths of cm^2        (round(x, 1))          *)
(*   percentages      integer tenths of a percent   (round(x, 1))          *)
(*   simulation areas, curves and deviation_cm2     integer hundredths     *)
(*   completion window                              integer tenths of days *)
(* round() is modelled as round-half-even on the exact quotient.           *)
(***************************************************************************)
EXTENDS Integers, Sequences, FiniteSets, TLC

VARIABLES
    DEMO_MODE,      \* config.DEMO_MODE, fixed for the life of the process
    modelFiles,     \* environment: both ONNX files exist and load
    SESSIONS,       \* session._SESSIONS: session id -> list of observations
    predictor,      \* segmentation._predictor and its model_loaded flag
    loads,          \* number of times the inference sessions were created
    resp,           \* what the last endpoint call returned
    built,          \* the measurement as build_frontend_response built it
    segIn,          \* last segment_wound call: its arguments
    segOut,         \* last segment_wound call: its result
    demoLog,        \* results of the demo_mode=true calls, per argument
    metricsIn,      \* metric extraction: the image and the two masks given
    metricsOut,     \* metric extraction: what the extractor returned
    simHeap,        \* simulation layer: the list objects, by address
    simMeasurement, \* simulation layer: the MeasurementData passed in
    simBefore,      \* simulation layer: the measurement's content before
    simResult,      \* simulation layer: the SimulationData returned
    simMetadata,    \* simulation layer: the metadata of the last call
    thr,            \* store threads: position and locals of each caller
    tSessions,      \* store threads: _SESSIONS, session id -> list object
    tHeap,          \* store threads: the list objects, by address
    arrived,        \* store threads: the calls in the order they arrived
    lThr,           \* predictor threads: position of each caller of _get_predictor
    lShared,        \* predictor threads: _predictor, the instance and its sessions
    storeOp,        \* store on its own: the last operation and the store before it
    firstArea,      \* store on its own: per session, the first area appended
    adapterIn,      \* the arguments of the last call of build_frontend_response
    adapterOut,     \* what that call returned or raised
    trajIn,         \* the arguments of the last call of analyze_trajectory
    trajOut         \* what that call returned

vars == <<DEMO_MODE, modelFiles, SESSIONS, predictor, loads, resp, built,
          segIn, segOut, demoLog, metricsIn, metricsOut, simHeap,
          simMeasurement, simBefore, simResult, simMetadata, thr, tSessions, tHeap, arrived,
          lThr, lShared, storeOp, firstArea, adapterIn, adapterOut, trajIn, trajOut>>

pipelineVars == <<DEMO_MODE, modelFiles, SESSIONS, predictor, loads, resp, built>>
segVars == <<segIn, segOut, demoLog>>
metVars == <<metricsIn, metricsOut>>
thrVars == <<thr, tSessions, tHeap, arrived>>
loadVars == <<lThr, lShared>>
storeVars == <<storeOp, firstArea>>
callVars == <<adapterIn, adapterOut, trajIn, trajOut>>
simVars == <<simHeap, simMeasurement, simBefore, simResult, simMetadata>>

\* Python's None: where a string is expected, and where an object is expected
NULL == "None"
None == [none |-> TRUE]

\* the parts of the state a specification does not use stay as constructed
PipelineIdle ==
    /\ SESSIONS = <<>> /\ predictor = None /\ loads = 0 /\ resp = None /\ built = None
SegIdle == segIn = None /\ segOut = None /\ demoLog = <<>>
MetIdle == metricsIn = None /\ metricsOut = None
SimIdle ==
    /\ simHeap = <<>> /\ simMeasurement = None /\ simBefore = None /\ simResult = None
    /\ simMetadata = None
CallIdle == adapterIn = None /\ adapterOut = None /\ trajIn = None /\ trajOut = None
StoreIdle == storeOp = None /\ firstArea = <<>> /\ CallIdle
LoadIdle == lThr = <<>> /\ lShared = None /\ StoreIdle
ThrIdle == thr = <<>> /\ tSessions = <<>> /\ tHeap = <<>> /\ arrived = <<>> /\ LoadIdle

(***************************************************************************)
(* Arithmetic helpers                                                      *)
(***************************************************************************)
Max(a, b) == IF a >= b THEN a ELSE b
Min(a, b) == IF a <= b THEN a ELSE b

\* round(n / d) to an integer, ties to even (Python's round), d > 0
RoundDiv(n, d) ==
    LET q == n \div d
        r == n - q * d
    IN  IF 2 * r < d THEN q
        ELSE IF 2 * r > d THEN q + 1
        ELSE IF q % 2 = 0 THEN q ELSE q + 1

RECURSIVE Pow(_, _)
Pow(b, e) == IF e = 0 THEN 1 ELSE b * Pow(b, e - 1)

Last(s) == s[Len(s)]

(***************************************************************************)
(* config.py: calibration and colour thresholds (OpenCV HSV scale)         *)
(***************************************************************************)
PIXELS_PER_CM2 == 120
RED_HUE_LOW_1 == 0
RED_HUE_HIGH_1 == 10
RED_HUE_LOW_2 == 170
RED_HUE_HIGH_2 == 180
RED_SAT_MIN == 80
PUS_SAT_MAX == 60
PUS_VAL_MIN == 180

(***************************************************************************)
(* Images and masks at pixel level.  An image is [h, w, px] with px a      *)
(* function from the pixel <<x, y>> to its HSV triple [h, s, v] (what      *)
(* cv2.cvtColor yields); a mask is [h, w, v] with v a function from the    *)
(* pixel to a uint8 value.                                                 *)
(***************************************************************************)
Grid(h, w) == (0 .. w - 1) \X (0 .. h - 1)

Mask(h, w, on) == [h |-> h, w |-> w, v |-> [p \in Grid(h, w) |-> IF p \in on THEN 1 ELSE 0]]

NonZero(mask) == {p \in DOMAIN mask.v : mask.v[p] # 0}

(***************************************************************************)
(* services/metrics.py                                                     *)
(* A Python float that is the quotient n / d is carried as the pair        *)
(* <<n, d>> until it is rounded.                                           *)
(***************************************************************************)
\* round(float(x), 1), in tenths
_round_1(x) == RoundDiv(10 * x[1], x[2])

\* max(0.0, min(100.0, x))
_clamp_pct(x) ==
    IF x[1] < 0 THEN <<0, 1>>
    ELSE IF x[1] > 100 * x[2] THEN <<100, 1>>
    ELSE x

\* the three calculators on pixel counts: what they compute once the
\* region and the matching pixels are counted
AreaOfCount(wound_pixels) == _round_1(<<wound_pixels, PIXELS_PER_CM2>>)

\* the percentage without the guard on an empty region: the quotient is
\* undefined, shown as -1
PctOfCount_noguard(hits, total_roi) ==
    IF total_roi = 0 THEN -1
    ELSE _round_1(_clamp_pct(<<hits * 100, total_roi>>))

PctOfCount(hits, total_roi) ==
    IF total_roi = 0 THEN 0
    ELSE _round_1(_clamp_pct(<<hits * 100, total_roi>>))

calculate_wound_area(mask) ==
    IF mask = None \/ DOMAIN mask.v = {} THEN 0
    ELSE AreaOfCount(Cardinality(NonZero(mask)))

IsRedPixel(c) ==
    /\ \/ (c.h >= RED_HUE_LOW_1 /\ c.h <= RED_HUE_HIGH_1)
       \/ (c.h >= RED_HUE_LOW_2 /\ c.h <= RED_HUE_HIGH_2)
    /\ c.s >= RED_SAT_MIN

IsPusPixel(c) == c.s <= PUS_SAT_MAX /\ c.v >= PUS_VAL_MIN

calculate_redness(image, peri_wound_mask) ==
    IF image = None \/ peri_wound_mask = None \/ DOMAIN peri_wound_mask.v = {} THEN 0
    ELSE LET roi == NonZero(peri_wound_mask)
             red_pixels == {p \in roi : IsRedPixel(image.px[p])}
         IN  PctOfCount(Cardinality(red_pixels), Cardinality(roi))

calculate_exudate(image, wound_mask) ==
    IF image = None \/ wound_mask = None \/ DOMAIN wound_mask.v = {} THEN 0
    ELSE LET roi == NonZero(wound_mask)
             pus_pixels == {p \in roi : IsPusPixel(image.px[p])}
         IN  PctOfCount(Cardinality(pus_pixels), Cardinality(roi))

\* metrics.get_debug_metrics is imported by the assembler and the route but
\* is not defined in services/metrics.py; it is the extractor of the design
\* (area, redness, exudate from the image and the two masks)
get_debug_metrics(image, wound_mask, peri_mask) ==
    [area_cm2 |-> calculate_wound_area(wound_mask),
     redness_pct |-> calculate_redness(image, peri_mask),
     pus_pct |-> calculate_exudate(image, wound_mask)]

(***************************************************************************)
(* services/session.py: the store, each call taken as a whole (the         *)
(* endpoints are coroutines without suspension points, one runs at a time) *)
(* The timestamp of an observation is never read and is left out.          *)
(***************************************************************************)
Observation(area, redness, pus) == [area |-> area, redness |-> redness, pus |-> pus]

add_observation(S, session_id, area, redness, pus) ==
    LET S1 == IF session_id \notin DOMAIN S THEN S @@ (session_id :> <<>>) ELSE S
    IN  [S1 EXCEPT ![session_id] = Append(@, Observation(area, redness, pus))]

get_history(S, session_id) == IF session_id \in DOMAIN S THEN S[session_id] ELSE <<>>

\* the baseline taken from the latest observation
get_baseline_area_latest(S, session_id) ==
    LET history == get_history(S, session_id)
    IN  IF history = <<>> THEN 0 ELSE history[Len(history)].area

get_baseline_area(S, session_id) ==
    LET history == get_history(S, session_id)
    IN  IF history = <<>> THEN 0 ELSE history[1].area

\* a clear that empties the whole store
clear_session_all(S, session_id) == [k \in {} |-> <<>>]

clear_session(S, session_id) == [k \in DOMAIN S \ {session_id} |-> S[k]]

(***************************************************************************)
(* services/trajectory.py                                                  *)
(***************************************************************************)
\* area_t = initial_area * (1 - 0.10) ** t, rounded to one decimal
calculate_expected_trajectory(initial_area, days) ==
    [i \in 1 .. days |-> RoundDiv(initial_area * Pow(9, i - 1), Pow(10, i - 1))]

RISK_GREEN == "GREEN"
RISK_AMBER == "AMBER"
RISK_RED == "RED"

\* thresholds in tenths of a percent (10.0, 20.0, -5.0, 0.0 in the source)
DEVIATION_THRESHOLD_AMBER == 100
DEVIATION_THRESHOLD_RED == 200
TREND_THRESHOLD_STALLED == -50
TREND_THRESHOLD_WORSENING == 0

\* a variant whose stalled interval is open at its lower end
calculate_risk_level_openstalled(deviation_pct, trend_pct) ==
    IF trend_pct > TREND_THRESHOLD_WORSENING
        THEN <<RISK_RED, "Wound area increased over the last 2 days">>
    ELSE IF deviation_pct > DEVIATION_THRESHOLD_RED
        THEN <<RISK_RED, "Wound area significantly larger than expected">>
    ELSE IF TREND_THRESHOLD_STALLED < trend_pct /\ trend_pct <= TREND_THRESHOLD_WORSENING
        THEN <<RISK_AMBER, "Healing stalled (minimal area reduction)">>
    ELSE IF deviation_pct > DEVIATION_THRESHOLD_AMBER
        THEN <<RISK_AMBER, "Healing progress is slower than expected">>
    ELSE <<RISK_GREEN, "Healing is progressing as expected">>

calculate_risk_level(deviation_pct, trend_pct) ==
    IF trend_pct > TREND_THRESHOLD_WORSENING
        THEN <<RISK_RED, "Wound area increased over the last 2 days">>
    ELSE IF deviation_pct > DEVIATION_THRESHOLD_RED
        THEN <<RISK_RED, "Wound area significantly larger than expected">>
    ELSE IF TREND_THRESHOLD_STALLED <= trend_pct /\ trend_pct <= TREND_THRESHOLD_WORSENING
        THEN <<RISK_AMBER, "Healing stalled (minimal area reduction)">>
    ELSE IF deviation_pct > DEVIATION_THRESHOLD_AMBER
        THEN <<RISK_AMBER, "Healing progress is slower than expected">>
    ELSE <<RISK_GREEN, "Healing is progressing as expected">>

compare_trajectories(expected, actual) ==
    IF expected = <<>> \/ actual = <<>> THEN [deviation_pct |-> 0, trend_pct |-> 0]
    ELSE LET current_expected == IF Len(actual) <= Len(expected)
                                     THEN expected[Len(actual)] ELSE Last(expected)
             current_actual == Last(actual)
             deviation_pct == IF current_expected > 0
                                  THEN RoundDiv((current_actual - current_expected) * 1000,
                                                current_expected)
                                  ELSE 0
             prev_area == actual[Len(actual) - 1]
             trend_pct == IF Len(actual) >= 2 /\ prev_area > 0
                              THEN RoundDiv((current_actual - prev_area) * 1000, prev_area)
                              ELSE 0
         IN  [deviation_pct |-> deviation_pct, trend_pct |-> trend_pct]

analyze_trajectory(area_history, segmentation_mode) ==
    IF segmentation_mode = "fallback"
        THEN [trajectory_status |-> "indeterminate",
              risk_level |-> NULL,
              trajectory |-> [expected |-> <<>>, actual |-> area_history],
              alert |-> FALSE,
              reason |-> "Segmentation fallback mode; area metrics unreliable"]
    ELSE IF area_history = <<>>
        THEN [trajectory_status |-> "insufficient_data",
              risk_level |-> RISK_GREEN,
              trajectory |-> [expected |-> <<>>, actual |-> <<>>],
              alert |-> FALSE,
              reason |-> "Not enough data for trajectory analysis"]
    ELSE LET expected_curve == calculate_expected_trajectory(area_history[1], Len(area_history))
             comparison == compare_trajectories(expected_curve, area_history)
             risk == calculate_risk_level(comparison.deviation_pct, comparison.trend_pct)
         IN  [trajectory_status |-> "analyzed",
              risk_level |-> risk[1],
              trajectory |-> [expected |-> expected_curve, actual |-> area_history],
              alert |-> risk[1] \in {RISK_AMBER, RISK_RED},
              reason |-> risk[2]]

\* config.RISK_THRESHOLDS, percentages in tenths of a percent
RISK_THRESHOLDS ==
    [GREEN |-> [area_change_pct |-> -5, redness_max |-> 150, pus_max |-> 20],
     AMBER |-> [area_change_pct |-> 0, redness_max |-> 250, pus_max |-> 80],
     RED |-> [area_change_pct |-> 5, redness_max |-> 1000, pus_max |-> 1000]]

\* (current - previous) / previous * 100 > pct, for previous > 0; the change
\* counts as 0 when previous <= 0
\* the change compared with >= in place of >
AreaChangeExceeds_geq(current_area, previous_area, pct) ==
    IF previous_area > 0
        THEN (current_area - previous_area) * 100 >= pct * previous_area
        ELSE 0 >= pct

AreaChangeExceeds(current_area, previous_area, pct) ==
    IF previous_area > 0
        THEN (current_area - previous_area) * 100 > pct * previous_area
        ELSE 0 > pct

\* trajectory.determine_risk_level is imported by the assembler but is not
\* defined in services/trajectory.py: the rule engine of the design over
\* config.RISK_THRESHOLDS.  RED: area change above the RED area threshold,
\* redness or exudate above the AMBER maximum; AMBER: area change above the
\* AMBER area threshold, redness or exudate above the GREEN maximum.
determine_risk_level(current_area, previous_area, redness_pct, pus_pct) ==
    LET T == RISK_THRESHOLDS
        red == (IF AreaChangeExceeds(current_area, previous_area, T.RED.area_change_pct)
                    THEN <<"Wound area increased">> ELSE <<>>)
               \o (IF redness_pct > T.AMBER.redness_max
                    THEN <<"Redness above expected range">> ELSE <<>>)
               \o (IF pus_pct > T.AMBER.pus_max
                    THEN <<"Exudate above expected range">> ELSE <<>>)
        amber == (IF AreaChangeExceeds(current_area, previous_area, T.AMBER.area_change_pct)
                    THEN <<"Wound area not decreasing">> ELSE <<>>)
                 \o (IF redness_pct > T.GREEN.redness_max
                    THEN <<"Redness above baseline">> ELSE <<>>)
                 \o (IF pus_pct > T.GREEN.pus_max
                    THEN <<"Exudate above baseline">> ELSE <<>>)
    IN  IF red # <<>> THEN [risk_level |-> RISK_RED, alert_reasons |-> red]
        ELSE IF amber # <<>> THEN [risk_level |-> RISK_AMBER, alert_reasons |-> amber]
        ELSE [risk_level |-> RISK_GREEN,
              alert_reasons |-> <<"Healing is progressing as expected">>]

(***************************************************************************)
(* services/simulation.py                                                  *)
(* Python lists are objects: a list lives in a heap (a sequence of lists,  *)
(* the address is the index) and a field holds its address, so that a      *)
(* write through one reference is seen through every other.                *)
(* MeasurementData m: area_cm2, redness_pct, pus_pct, risk_level,          *)
(* alert_reason, deviation_cm2 by value, expected and actual (the two      *)
(* lists of m.trajectory) by address.                                      *)
(***************************************************************************)
\* HEALING_RATE_MULTIPLIERS, in percent: 0.80, 0.70
SMOKING_MULTIPLIER == 80
DIABETES_MULTIPLIER == 70
\* measurement.area_cm2 * 0.98, in percent
REFERENCE_SCALE == 98
\* extrapolate_curve(sim_ref_curve, steps=3)
EXTRAPOLATION_STEPS == 3

\* the measurement with its two lists by value
Deref(heap, m) == [m EXCEPT !.expected = heap[m.expected], !.actual = heap[m.actual]]

Alloc(heap, list) == [heap |-> Append(heap, list), ret |-> Len(heap) + 1]

\* the smaller of the two factors in place of their product
VelocityMultiplier_nocompound(metadata) ==
    IF metadata.has_diabetes THEN DIABETES_MULTIPLIER
    ELSE IF metadata.is_smoker THEN SMOKING_MULTIPLIER ELSE 100

\* velocity_multiplier, in percent
VelocityMultiplier(metadata) ==
    LET v1 == IF metadata.is_smoker THEN (100 * SMOKING_MULTIPLIER) \div 100 ELSE 100
    IN  IF metadata.has_diabetes THEN (v1 * DIABETES_MULTIPLIER) \div 100 ELSE v1

\* a variant that scales the curve it is given in place instead of building
\* a new list
simulate_reference_curve_inplace(heap, base_curve, velocity_multiplier) ==
    LET base == heap[base_curve]
    IN  [heap |-> [heap EXCEPT ![base_curve] = [i \in 1 .. Len(base) |->
                     RoundDiv(100 * base[1] + (base[i] - base[1]) * velocity_multiplier, 10)]],
         ret |-> base_curve]

\* round(baseline + (v - baseline) * velocity_multiplier, 2) for every v, a
\* new list; base_curve in tenths, the result in hundredths
simulate_reference_curve(heap, base_curve, velocity_multiplier) ==
    LET base == heap[base_curve]
    IN  IF base = <<>> THEN Alloc(heap, <<>>)
        ELSE Alloc(heap, [i \in 1 .. Len(base) |->
                 RoundDiv(100 * base[1] + (base[i] - base[1]) * velocity_multiplier, 10)])

\* a variant that extends the curve with copies of its last point
extrapolate_curve_flat(heap, curve, steps) ==
    LET c == heap[curve]
        n == Len(c)
    IN  IF n < 2 THEN [heap |-> heap, ret |-> curve]
        ELSE Alloc(heap, c \o [i \in 1 .. steps |-> c[n]])

\* the curve itself when it has fewer than two points, else a new list
extrapolate_curve(heap, curve, steps) ==
    LET c == heap[curve]
        n == Len(c)
    IN  IF n < 2 THEN [heap |-> heap, ret |-> curve]
        ELSE LET slope == c[n] - c[n - 1]
                 ext_points == [i \in 1 .. steps |-> Max(0, c[n] + slope * i)]
             IN  Alloc(heap, c \o ext_points)

\* the list without the entry of the reference object
Assumptions_noreference(metadata) ==
    (IF metadata.is_smoker THEN <<"Smoking adjustment: -20% healing velocity">> ELSE <<>>)
    \o (IF metadata.has_diabetes THEN <<"Diabetes adjustment: -30% healing velocity">> ELSE <<>>)

Assumptions(metadata) ==
    (IF metadata.is_smoker THEN <<"Smoking adjustment: -20% healing velocity">> ELSE <<>>)
    \o (IF metadata.has_diabetes THEN <<"Diabetes adjustment: -30% healing velocity">> ELSE <<>>)
    \o (IF metadata.has_reference_object
            THEN <<"Reference-normalized area (1-euro coin benchmark)">> ELSE <<>>)

\* returns the heap and the measurement as the call leaves them, and the
\* SimulationData it builds
run_hypothetical_simulation(heap, measurement, metadata) ==
    LET assumptions == Assumptions(metadata)
        velocity_multiplier == VelocityMultiplier(metadata)
        \* simulated_area = area * scale / 100 (area * 0.98, or the area itself)
        scale == IF metadata.has_reference_object THEN REFERENCE_SCALE ELSE 100
        ref == simulate_reference_curve(heap, measurement.expected, velocity_multiplier)
        ext == extrapolate_curve(ref.heap, ref.ret, EXTRAPOLATION_STEPS)
        \* adjusted_rate = 0.05 * velocity_multiplier; days_to_zero =
        \* simulated_area / (adjusted_rate * 2); the window is days * 0.8, days * 1.5
        min_days == IF velocity_multiplier > 0
                        THEN RoundDiv(measurement.area_cm2 * scale * 8, velocity_multiplier)
                        ELSE 0
        max_days == IF velocity_multiplier > 0
                        THEN RoundDiv(measurement.area_cm2 * scale * 15, velocity_multiplier)
                        ELSE 0
    IN  [heap |-> ext.heap,
         measurement |-> measurement,
         result |-> [enabled |-> TRUE,
                     assumptions_used |-> IF assumptions # <<>> THEN assumptions
                                          ELSE <<"Base healing model (no metadata)">>,
                     simulated_area_cm2 |-> RoundDiv(measurement.area_cm2 * scale, 10),
                     reference_curve |-> ref.ret,
                     extrapolated_curve |-> ext.ret,
                     completion_window_days |-> <<min_days, max_days>>,
                     confidence |-> "LOW"]]

get_disabled_simulation(heap, measurement) ==
    LET e1 == Alloc(heap, <<>>)
        e2 == Alloc(e1.heap, <<>>)
    IN  [heap |-> e2.heap,
         measurement |-> measurement,
         result |-> [enabled |-> FALSE,
                     assumptions_used |-> <<>>,
                     simulated_area_cm2 |-> measurement.area_cm2 * 10,
                     reference_curve |-> e1.ret,
                     extrapolated_curve |-> e2.ret,
                     completion_window_days |-> <<0, 0>>,
                     confidence |-> "LOW"]]

(***************************************************************************)
(* services/segmentation.py: the predictor singleton and the decision      *)
(* between the model's mask and the circular fallback                      *)
(***************************************************************************)
\* what validation reads of a mask: its shape and np.sum(mask)
MaskSummary(h, w, sum) == [h |-> h, w |-> w, sum |-> sum]

\* validation without the coverage limit
_validate_mask_nocoverage(mask, image_shape) ==
    IF mask = None THEN FALSE
    ELSE IF <<mask.h, mask.w>> # image_shape THEN FALSE
    ELSE IF mask.sum = 0 THEN FALSE
    ELSE TRUE

_validate_mask(mask, image_shape) ==
    IF mask = None THEN FALSE
    ELSE IF <<mask.h, mask.w>> # image_shape THEN FALSE
    ELSE IF mask.sum = 0 THEN FALSE
    \* mask_sum > 0.9 * total_pixels
    ELSE IF 10 * mask.sum > 9 * (image_shape[1] * image_shape[2]) THEN FALSE
    ELSE TRUE

\* _get_predictor: the first call creates the predictor and tries to load
\* the model; files says whether both files exist and the sessions load
_get_predictor(pred, files) ==
    IF pred = None THEN [model_loaded |-> files] ELSE pred

\* inference sessions created by that call of _get_predictor
SessionsCreated(pred, files) == IF pred = None /\ files THEN 1 ELSE 0

\* segment_wound for a 3-channel image: predicted is the summary of the mask
\* predictor.predict returns, None when it returns None (model not loaded,
\* or an exception inside predict); "model" or "fallback"
SegmentationPath(demo_mode, pred, predicted, image_shape) ==
    LET wound_mask == IF ~demo_mode /\ pred.model_loaded THEN predicted ELSE None
    IN  IF ~_validate_mask(wound_mask, image_shape) THEN "fallback" ELSE "model"

(***************************************************************************)
(* services/segmentation.py at pixel level.  For segmentation an image is  *)
(* its numpy shape, [shape |-> <<H, W, 3>>]: the pixels are read by the    *)
(* oracle only.  Lengths in pixels are scaled down: the source uses a      *)
(* fallback radius of 80, a dilation of 20 and a default shape of 480x640. *)
(***************************************************************************)
Radius == 2
DilationPx == 1
DefaultH == 5
DefaultW == 6

Abs(x) == IF x < 0 THEN -x ELSE x

SetMax(S) == CHOOSE m \in S : \A n \in S : n <= m

Shifted(p, o) == <<p[1] + o[1], p[2] + o[2]>>

\* p is one of the pixels cv2.circle(img, (cx, cy), r, 1, -1) draws, taken
\* as the Euclidean disc
InDisc(p, cx, cy, r) ==
    (p[1] - cx) * (p[1] - cx) + (p[2] - cy) * (p[2] - cy) <= r * r

\* cv2.getStructuringElement(cv2.MORPH_ELLIPSE, (2d+1, 2d+1)), as offsets
\* o from the anchor: row dy holds the columns |dx| <= round(sqrt(d^2 - dy^2))
InEllipseKernel(o, dilation_px) ==
    /\ Abs(o[1]) <= dilation_px /\ Abs(o[2]) <= dilation_px
    /\ \/ o[1] = 0
       \/ (2 * Abs(o[1]) - 1) * (2 * Abs(o[1]) - 1)
              <= 4 * (dilation_px * dilation_px - o[2] * o[2])

\* cv2.dilate(mask, kernel, iterations=1) at pixel p: the maximum under the
\* kernel, pixels outside the image do not count
dilate(mask, dilation_px, p) ==
    SetMax({mask.v[q] :
              q \in {q \in ((p[1] - dilation_px) .. (p[1] + dilation_px))
                              \X ((p[2] - dilation_px) .. (p[2] + dilation_px)) :
                        /\ q[1] >= 0 /\ q[1] < mask.w /\ q[2] >= 0 /\ q[2] < mask.h
                        /\ InEllipseKernel(<<q[1] - p[1], q[2] - p[2]>>, dilation_px)}})

\* the ring without the subtraction of the wound
_generate_peri_wound_mask_nosubtract(wound_mask, dilation_px) ==
    [h |-> wound_mask.h, w |-> wound_mask.w,
     v |-> [p \in Grid(wound_mask.h, wound_mask.w) |->
               IF dilate(wound_mask, dilation_px, p) > 0 THEN 1 ELSE 0]]

\* dilated - wound_mask is a uint8 subtraction
_generate_peri_wound_mask(wound_mask, dilation_px) ==
    [h |-> wound_mask.h, w |-> wound_mask.w,
     v |-> [p \in Grid(wound_mask.h, wound_mask.w) |->
               IF (dilate(wound_mask, dilation_px, p) - wound_mask.v[p]) % 256 > 0
                   THEN 1 ELSE 0]]

\* image_shape is <<H, W>>, point is <<x, y>>
_generate_demo_masks(image_shape, point, radius) ==
    LET h == image_shape[1]
        w == image_shape[2]
        x == Max(radius, Min(w - radius, point[1]))
        y == Max(radius, Min(h - radius, point[2]))
        wound_mask == [h |-> h, w |-> w,
                       v |-> [p \in Grid(h, w) |-> IF InDisc(p, x, y, radius) THEN 1 ELSE 0]]
    IN  [wound_mask |-> wound_mask,
         peri_wound_mask |-> _generate_peri_wound_mask(wound_mask, DilationPx)]

\* what _validate_mask reads of a mask; np.sum of a 0/1 mask is the number
\* of its set pixels
Summary(mask) ==
    IF mask = None THEN None
    ELSE MaskSummary(mask.h, mask.w, Cardinality(NonZero(mask)))

\* the oracle (encoder and decoder sessions) on one call: it raises, or the
\* decoder returns the logits of its best mask
OracleRaises == [kind |-> "raise"]

\* logits that are positive nowhere, everywhere, on the left half, and
\* everywhere but on two pixels
LogitPatterns == {"nowhere", "everywhere", "left", "most"}

Logit(pattern, p, w) ==
    IF \/ pattern = "everywhere"
       \/ pattern = "left" /\ p[1] < w \div 2
       \/ pattern = "most" /\ ~(p[2] = 0 /\ p[1] <= 1)
        THEN 2 ELSE -2

Logits(h, w, pattern) ==
    [kind |-> "masks",
     mask |-> [h |-> h, w |-> w, v |-> [p \in Grid(h, w) |-> Logit(pattern, p, w)]]]

\* the decoder answers at the image's size, or at a lower resolution
OracleOutcomes(h, w) ==
    {OracleRaises, Logits(2, 2, "left")} \cup {Logits(h, w, pattern) : pattern \in LogitPatterns}

\* cv2.resize(mask, (w, h), interpolation=cv2.INTER_NEAREST)
resize(mask, h, w) ==
    [h |-> h, w |-> w,
     v |-> [p \in Grid(h, w) |->
               mask.v[<<(p[1] * mask.w) \div w, (p[2] * mask.h) \div h>>]]]

\* MobileSAMPredictor.predict: None when the model is not loaded or when
\* anything raises, else the thresholded mask at the image's size
predict(pred, image, point, oracle) ==
    IF ~pred.model_loaded THEN None
    ELSE IF oracle.kind = "raise" THEN None
    ELSE LET original_h == image.shape[1]
             original_w == image.shape[2]
             mask == oracle.mask
             binary_mask == [mask EXCEPT !.v = [p \in DOMAIN mask.v |->
                                                   IF mask.v[p] > 0 THEN 1 ELSE 0]]
         IN  IF <<binary_mask.h, binary_mask.w>> # <<original_h, original_w>>
                 THEN resize(binary_mask, original_h, original_w)
                 ELSE binary_mask

\* what a call of segment_wound leaves: the predictor, the inference
\* sessions it created, the masks, which masks they are, and whether the
\* oracle was run
Valid3Channel(image) == image # None /\ Len(image.shape) = 3 /\ image.shape[3] = 3

SegResult(pred, created, masks, path, consulted) ==
    [predictor |-> pred, loads |-> created, out |-> masks, path |-> path,
     consulted |-> consulted]

\* the oracle is run whether or not demo_mode is set
ShouldPredict_nodemo(pred, files, demo_mode) ==
    _get_predictor(pred, files).model_loaded

\* segment_wound runs the oracle: not demo_mode, and the predictor that
\* _get_predictor returns has its model loaded
ShouldPredict(pred, files, demo_mode) ==
    ~demo_mode /\ _get_predictor(pred, files).model_loaded

segment_wound(pred, files, image, point, demo_mode, oracle) ==
    IF ~Valid3Channel(image)
        THEN IF image # None /\ Len(image.shape) >= 2
                 THEN SegResult(pred, 0,
                                _generate_demo_masks(SubSeq(image.shape, 1, 2), point, Radius),
                                "fallback", FALSE)
                 ELSE SegResult(pred, 0,
                                _generate_demo_masks(<<DefaultH, DefaultW>>, point, Radius),
                                "fallback", FALSE)
    ELSE LET image_shape == <<image.shape[1], image.shape[2]>>
             p2 == IF ~demo_mode THEN _get_predictor(pred, files) ELSE pred
             created == IF ~demo_mode THEN SessionsCreated(pred, files) ELSE 0
             consulted == ShouldPredict(pred, files, demo_mode)
             wound_mask == IF consulted
                               THEN predict(_get_predictor(pred, files), image, point, oracle)
                               ELSE None
         IN  IF ~_validate_mask(Summary(wound_mask), image_shape)
                 THEN SegResult(p2, created,
                                _generate_demo_masks(image_shape, point, Radius),
                                "fallback", consulted)
                 ELSE SegResult(p2, created,
                                [wound_mask |-> wound_mask,
                                 peri_wound_mask |->
                                     _generate_peri_wound_mask(wound_mask, DilationPx)],
                                "model", consulted)

(***************************************************************************)
(* utils/response_adapter.py                                               *)
(* metrics_data is what get_debug_metrics returned for the image and the   *)
(* masks; its field bad names the metrics that are None or NaN.            *)
(***************************************************************************)
MetricsData(area, redness, pus) ==
    [area_cm2 |-> area, redness_pct |-> redness, pus_pct |-> pus, bad |-> {}]

Areas(history) == [i \in 1 .. Len(history) |-> history[i].area]

\* the None / NaN guard: None in any of the three, NaN in area or redness
GuardRaises(metrics_data) ==
    \/ \E f \in {"area_cm2", "redness_pct", "pus_pct"} : <<f, "None">> \in metrics_data.bad
    \/ <<"area_cm2", "NaN">> \in metrics_data.bad
    \/ <<"redness_pct", "NaN">> \in metrics_data.bad

\* a variant without the baseline rule: the first observation is compared
\* with itself by the rule engine
RiskAssessment_nobaseline(actual, metrics_data) ==
    determine_risk_level(metrics_data.area_cm2,
                         IF Len(actual) = 1 THEN metrics_data.area_cm2
                                            ELSE actual[Len(actual) - 1],
                         metrics_data.redness_pct, metrics_data.pus_pct)

\* the risk assessment of the latest observation
RiskAssessment(actual, metrics_data) ==
    IF Len(actual) = 1
        THEN [risk_level |-> "GREEN", alert_reasons |-> <<>>]
        ELSE determine_risk_level(metrics_data.area_cm2, actual[Len(actual) - 1],
                                  metrics_data.redness_pct, metrics_data.pus_pct)

\* round(current_area - expected[current_day_idx], 2), in hundredths
Deviation(actual, expected, current_area) ==
    IF Len(actual) - 1 < Len(expected) /\ Len(actual) > 1
        THEN (current_area - expected[Len(actual)]) * 10
        ELSE 0

\* the first reason of the rule engine and nothing in its place
AlertReason_nosubstitute(risk_assessment) ==
    IF risk_assessment.alert_reasons # <<>> THEN risk_assessment.alert_reasons[1] ELSE NULL

\* what a rule engine may hand to the assembler: a level and a list of
\* reasons, which may be empty or start with an empty string
RiskAssessments ==
    {[risk_level |-> l, alert_reasons |-> r] :
        l \in {"GREEN", "AMBER", "RED"},
        r \in {<<>>, <<"">>, <<"Wound area increased">>,
               <<"Wound area increased", "Redness above expected range">>}}

AlertReason(risk_assessment) ==
    LET alert_reason == IF risk_assessment.alert_reasons # <<>>
                            THEN risk_assessment.alert_reasons[1] ELSE NULL
    IN  IF risk_assessment.risk_level # "GREEN" /\ alert_reason \in {NULL, ""}
            THEN "Wound monitoring indicates visual deviation from expected trend"
            ELSE alert_reason

\* a variant that runs the simulation whenever metadata is present
SimulationLayer_alwayson(heap, measurement, metadata, enable_simulation) ==
    IF metadata # None
        THEN LET r == run_hypothetical_simulation(heap, measurement, metadata)
             IN  [r EXCEPT !.result.enabled = TRUE]
        ELSE [heap |-> heap, measurement |-> measurement, result |-> None]

\* the simulation layer of the response: [heap, measurement, result]
SimulationLayer(heap, measurement, metadata, enable_simulation) ==
    IF enable_simulation /\ metadata # None
        THEN LET r == run_hypothetical_simulation(heap, measurement, metadata)
             IN  [r EXCEPT !.result.enabled = TRUE]
        ELSE [heap |-> heap, measurement |-> measurement, result |-> None]

\* [kind |-> "raise", error] or [kind |-> "ok", heap, measurement,
\* simulation, flags, metadata]; analysis_id and captured_at are left out
build_frontend_response(S, metrics_data, metadata, demo_mode, fallback_used, enable_simulation, session_id) ==
    LET current_area == metrics_data.area_cm2
        actual == Areas(get_history(S, session_id))
        baseline == get_baseline_area(S, session_id)
        expected == calculate_expected_trajectory(baseline, Max(Len(actual), 5))
        risk_assessment == RiskAssessment(actual, metrics_data)
        measurement == [area_cm2 |-> current_area,
                        redness_pct |-> metrics_data.redness_pct,
                        pus_pct |-> metrics_data.pus_pct,
                        risk_level |-> risk_assessment.risk_level,
                        expected |-> 1,
                        actual |-> 2,
                        alert_reason |-> AlertReason(risk_assessment),
                        deviation_cm2 |-> Deviation(actual, expected, current_area)]
        sim == SimulationLayer(<<expected, actual>>, measurement, metadata, enable_simulation)
    IN  IF GuardRaises(metrics_data) THEN [kind |-> "raise", error |-> "ValueError"]
        \* prev_area = actual[-2] on an empty history
        ELSE IF Len(actual) = 0 THEN [kind |-> "raise", error |-> "IndexError"]
        ELSE [kind |-> "ok",
              heap |-> sim.heap,
              measurement |-> sim.measurement,
              simulation |-> sim.result,
              flags |-> [demo_mode |-> demo_mode,
                         fallback_segmentation |-> fallback_used,
                         research_mode |-> TRUE],
              metadata |-> [day_index |-> Len(actual), observation_count |-> Len(actual)]]

(***************************************************************************)
(* routes/analyze.py                                                       *)
(* At this level an image is known by what the segmentation and the metric *)
(* extraction make of it: its shape, what the oracle does with it ("mask"  *)
(* or "raise"), and for the mask the oracle returns (model) and for the    *)
(* circular fallback mask (fb) the pixel counts the metrics are computed   *)
(* from: wound, peri (the ring), red (red ring pixels), pus (exudate wound  *)
(* pixels).                                                                *)
(***************************************************************************)
Counts(wound, peri, red, pus) == [wound |-> wound, peri |-> peri, red |-> red, pus |-> pus]

CountMetrics(c) ==
    MetricsData(AreaOfCount(c.wound), PctOfCount(c.red, c.peri), PctOfCount(c.pus, c.wound))

PipelineImage(oracle, model, fb) ==
    [h |-> 480, w |-> 640, oracle |-> oracle, model |-> model, fb |-> fb, bad |-> {}]

\* an image on which the extraction yields redness_pct = NaN
DefectiveImage ==
    [PipelineImage("raise", Counts(0, 0, 0, 0), Counts(20081, 11310, 1131, 0))
        EXCEPT !.bad = {<<"redness_pct", "NaN">>}]

\* get_debug_metrics(image_rgb, wound_mask, peri_mask) at this level
Extracted(image, counts) ==
    [CountMetrics(counts) EXCEPT
        !.bad = image.bad,
        !.redness_pct = IF <<"redness_pct", "NaN">> \in image.bad THEN "NaN" ELSE @]

\* a request whose image_base64 does not decode
Undecodable == [undecodable |-> TRUE]

PipelineImages ==
    {PipelineImage("mask", Counts(1440, 1000, 100, 14), Counts(20081, 11310, 1131, 0)),
     PipelineImage("mask", Counts(1620, 1000, 100, 16), Counts(20081, 11310, 1131, 0)),
     PipelineImage("mask", Counts(1296, 1000, 300, 130), Counts(20081, 11310, 3393, 2008)),
     PipelineImage("raise", Counts(0, 0, 0, 0), Counts(20081, 11310, 3393, 2008))}

\* request.metadata and request.enable_simulation
RequestOptions ==
    {<<None, TRUE>>,
     <<None, FALSE>>,
     <<[is_smoker |-> TRUE, has_diabetes |-> FALSE, has_reference_object |-> FALSE], TRUE>>,
     <<[is_smoker |-> TRUE, has_diabetes |-> TRUE, has_reference_object |-> TRUE], TRUE>>,
     <<[is_smoker |-> TRUE, has_diabetes |-> TRUE, has_reference_object |-> TRUE], FALSE>>}

\* AnalyzeRequest as the route reads it: the image, request.session_id
\* (NULL when absent), request.metadata, request.enable_simulation
AnalyzeRequest ==
    {[image |-> i, session_id |-> s, metadata |-> o[1], enable_simulation |-> o[2]] :
        i \in PipelineImages \cup {Undecodable}, s \in {NULL, "default"}, o \in RequestOptions}
    \cup {[image |-> DefectiveImage, session_id |-> "default", metadata |-> None,
           enable_simulation |-> TRUE]}

DerefSimulation(heap, sim) ==
    IF sim = None THEN None
    ELSE [sim EXCEPT !.reference_curve = heap[sim.reference_curve],
                     !.extrapolated_curve = heap[sim.extrapolated_curve]]

\* the AnalyzeResponse as serialized; path records which masks were used
Emitted(b, path) ==
    [kind |-> "ok",
     measurement |-> Deref(b.heap, b.measurement),
     simulation |-> DerefSimulation(b.heap, b.simulation),
     flags |-> b.flags,
     metadata |-> b.metadata,
     path |-> path]

\* _execute_core_pipeline: [SESSIONS, predictor, loads, out], out being
\* [kind |-> "raise", error] or the layered response with its heap
_execute_core_pipeline(S, pred, files, demo_mode, request) ==
    IF request.image = Undecodable
        THEN [SESSIONS |-> S, predictor |-> pred, loads |-> 0,
              out |-> [kind |-> "raise", error |-> "HTTPException"], path |-> NULL]
    ELSE
    LET image == request.image
        predictor1 == IF demo_mode THEN pred ELSE _get_predictor(pred, files)
        created == IF demo_mode THEN 0 ELSE SessionsCreated(pred, files)
        predicted == IF image.oracle = "raise" THEN None
                     ELSE MaskSummary(image.h, image.w, image.model.wound)
        path == SegmentationPath(demo_mode, IF demo_mode THEN [model_loaded |-> FALSE]
                                                         ELSE predictor1,
                                 predicted, <<image.h, image.w>>)
        counts == IF path = "model" THEN image.model ELSE image.fb
        fallback_flag == demo_mode
        debug_metrics == Extracted(image, counts)
        session_id == IF request.session_id = NULL THEN "default_session"
                      ELSE request.session_id
        S1 == add_observation(S, session_id, debug_metrics.area_cm2,
                              debug_metrics.redness_pct, debug_metrics.pus_pct)
        layered_response == build_frontend_response(S1, Extracted(image, counts), request.metadata,
                                                    demo_mode, fallback_flag,
                                                    request.enable_simulation, session_id)
    IN  [SESSIONS |-> S1, predictor |-> predictor1, loads |-> created,
         out |-> layered_response, path |-> path]

\* _get_demo_layered_response: the adapter on all-zero mock masks and the
\* default session, then the measurement fields overwritten
_get_demo_layered_response(S, request) ==
    LET response == build_frontend_response(S, CountMetrics(Counts(0, 0, 0, 0)),
                                            request.metadata, TRUE, TRUE,
                                            request.enable_simulation, "default")
        e == Alloc(response.heap, <<120, 108, 97, 87, 78>>)
        a == Alloc(e.heap, <<120, 115, 113, 112, 112>>)
    IN  IF response.kind = "raise" THEN response
        ELSE [response EXCEPT
                 !.heap = a.heap,
                 !.measurement.area_cm2 = 124,
                 !.measurement.redness_pct = 182,
                 !.measurement.pus_pct = 41,
                 !.measurement.risk_level = "AMBER",
                 !.measurement.alert_reason =
                     "Healing rate slower than expected (stalled trajectory)",
                 !.measurement.expected = e.ret,
                 !.measurement.actual = a.ret,
                 !.measurement.deviation_cm2 = (112 - 78) * 10,
                 !.metadata.observation_count = 5]

(***************************************************************************)
(* The process: requests arrive at POST /analyze and POST /analyze/debug   *)
(* and are handled one at a time.                                          *)
(***************************************************************************)
\* observations the store may hold in all
MaxObs == 3

TotalObs(S) ==
    LET RECURSIVE Sum(_)
        Sum(ks) == IF ks = {} THEN 0
                   ELSE LET k == CHOOSE x \in ks : TRUE IN Len(S[k]) + Sum(ks \ {k})
    IN  Sum(DOMAIN S)

Init ==
    /\ DEMO_MODE \in BOOLEAN
    \* the model files are not looked at in demo mode
    /\ modelFiles \in (IF DEMO_MODE THEN {FALSE} ELSE BOOLEAN)
    /\ PipelineIdle /\ SegIdle /\ MetIdle /\ SimIdle /\ ThrIdle

ErrorEnvelope == [kind |-> "error", error |-> "Analysis failed"]

\* POST /analyze in demo mode; b is the response as the adapter returned it
AnalyzeWoundDemo(request) ==
    /\ DEMO_MODE
    /\ \E r \in {_get_demo_layered_response(SESSIONS, request)},
          b \in {build_frontend_response(SESSIONS, CountMetrics(Counts(0, 0, 0, 0)),
                                         request.metadata, TRUE, TRUE,
                                         request.enable_simulation, "default")} :
          IF r.kind = "raise"
              THEN resp' = ErrorEnvelope /\ built' = None
              ELSE /\ resp' = Emitted(r, "mock")
                   /\ built' = Deref(b.heap, b.measurement)
    /\ UNCHANGED <<DEMO_MODE, modelFiles, SESSIONS, predictor, loads, segVars, metVars, simVars, thrVars, loadVars, storeVars, callVars>>

\* the pipeline behind POST /analyze (normal mode) and POST /analyze/debug
RunPipeline(request, envelope) ==
    /\ TotalObs(SESSIONS) < MaxObs
    /\ \E r \in {_execute_core_pipeline(SESSIONS, predictor, modelFiles, DEMO_MODE, request)} :
           /\ SESSIONS' = r.SESSIONS
           /\ predictor' = r.predictor
           /\ loads' = loads + r.loads
           /\ IF r.out.kind = "raise"
                  THEN resp' = envelope /\ built' = None
                  ELSE /\ resp' = Emitted(r.out, r.path)
                       /\ built' = Deref(r.out.heap, r.out.measurement)
    /\ UNCHANGED <<DEMO_MODE, modelFiles, segVars, metVars, simVars, thrVars, loadVars, storeVars, callVars>>

\* POST /analyze in normal mode
AnalyzeWound(request) == ~DEMO_MODE /\ RunPipeline(request, ErrorEnvelope)

\* POST /analyze/debug, in either mode
AnalyzeWoundDebug(request) ==
    RunPipeline(request, [kind |-> "error", error |-> "HTTP 500"])

Next ==
    \E request \in AnalyzeRequest :
        \/ AnalyzeWoundDemo(request)
        \/ AnalyzeWound(request)
        \/ AnalyzeWoundDebug(request)

Spec == Init /\ [][Next]_vars

(***************************************************************************)
(* The simulation layer on its own: a measurement is given, the simulation *)
(* engine is called on it with some patient metadata.                      *)
(***************************************************************************)
\* PatientMetadata: age and surgery_type are never read and are left out
PatientMetadata ==
    [is_smoker : BOOLEAN, has_diabetes : BOOLEAN, has_reference_object : BOOLEAN]

\* areas (tenths of cm^2) the measurements are drawn from
SimAreas == {0, 1, 108, 120, 135, 1676}

\* expected curves of a measurement: none (no history), and the curves the
\* trajectory service builds, one of them ending at 0.0 after 0.1
SimExpected ==
    {<<>>, <<120>>, calculate_expected_trajectory(1, 8)}
        \cup {calculate_expected_trajectory(a, d) : a \in {0, 120, 1676}, d \in {2, 5}}

SimInit ==
    /\ DEMO_MODE = FALSE /\ modelFiles = FALSE
    /\ PipelineIdle /\ SegIdle /\ MetIdle /\ ThrIdle
    /\ \E a \in SimAreas, e \in SimExpected, r \in {RISK_GREEN, RISK_RED} :
          /\ simHeap = <<e, <<a>>>>
          /\ simMeasurement = [area_cm2 |-> a, redness_pct |-> 182, pus_pct |-> 41,
                               risk_level |-> r, expected |-> 1, actual |-> 2,
                               alert_reason |-> NULL, deviation_cm2 |-> 0]
    /\ simBefore = Deref(simHeap, simMeasurement)
    /\ simResult = None
    /\ simMetadata = None

\* the lists of an earlier result are garbage once the result is dropped
SimLive == SubSeq(simHeap, 1, 2)

SimRun(metadata) ==
    LET r == run_hypothetical_simulation(SimLive, simMeasurement, metadata)
    IN  /\ simBefore' = Deref(simHeap, simMeasurement)
        /\ simHeap' = r.heap
        /\ simMeasurement' = r.measurement
        /\ simResult' = r.result
        /\ simMetadata' = metadata
        /\ UNCHANGED <<pipelineVars, segVars, metVars, thrVars, loadVars, storeVars, callVars>>

SimDisabled ==
    LET r == get_disabled_simulation(SimLive, simMeasurement)
    IN  /\ simBefore' = Deref(simHeap, simMeasurement)
        /\ simHeap' = r.heap
        /\ simMeasurement' = r.measurement
        /\ simResult' = r.result
        /\ simMetadata' = None
        /\ UNCHANGED <<pipelineVars, segVars, metVars, thrVars, loadVars, storeVars, callVars>>

SimNext ==
    \/ \E metadata \in PatientMetadata : SimRun(metadata)
    \/ SimDisabled

SpecSim == SimInit /\ [][SimNext]_vars

(***************************************************************************)
(* Segmentation on its own: segment_wound is called with any image, point  *)
(* and demo_mode, one call at a time, in a process whose model files exist *)
(* or not.                                                                 *)
(***************************************************************************)
\* numpy shapes of the images: 3-channel, and malformed ones
SegShapes == {<<5, 6, 3>>, <<4, 5, 3>>, <<5, 6>>, <<4, 5, 4>>, <<7>>}

SegImages == {None} \cup {[shape |-> s] : s \in SegShapes}

\* H x W of the masks segment_wound builds for an image
MaskShape(image) ==
    IF image # None /\ Len(image.shape) >= 2
        THEN SubSeq(image.shape, 1, 2)
        ELSE <<DefaultH, DefaultW>>

\* the points tried on an image: two opposite corners and the centre
SegPoints(image) ==
    LET h == MaskShape(image)[1]
        w == MaskShape(image)[2]
    IN  {<<0, 0>>, <<w - 1, h - 1>>, <<w \div 2, h \div 2>>}

\* the demo calls whose first result is kept for comparison
DemoLogged ==
    {<<[shape |-> <<5, 6, 3>>], <<5, 4>>>>}

Unconsulted == [kind |-> "unconsulted"]

SegInit ==
    /\ DEMO_MODE = FALSE
    /\ modelFiles \in BOOLEAN
    /\ PipelineIdle /\ SegIdle /\ MetIdle /\ SimIdle /\ ThrIdle

\* one call of segment_wound; the oracle's outcome matters when it is run
SegmentWound(image, point, demo_mode) ==
    \E oracle \in (IF Valid3Channel(image) /\ ShouldPredict(predictor, modelFiles, demo_mode)
                       THEN OracleOutcomes(image.shape[1], image.shape[2])
                       ELSE {OracleRaises}) :
    \E r \in {segment_wound(predictor, modelFiles, image, point, demo_mode, oracle)} :
        /\ segIn' = [image |-> image, point |-> point, demo_mode |-> demo_mode,
                     oracle |-> IF r.consulted THEN oracle ELSE Unconsulted]
        /\ segOut' = [wound_mask |-> r.out.wound_mask,
                      peri_wound_mask |-> r.out.peri_wound_mask,
                      path |-> r.path]
        /\ predictor' = r.predictor
        /\ loads' = loads + r.loads
        /\ demoLog' =
              IF demo_mode /\ <<image, point>> \in DemoLogged
                           /\ <<image, point>> \notin DOMAIN demoLog
                  THEN demoLog @@ (<<image, point>> :> [masks |-> r.out, predictor |-> predictor])
                  ELSE demoLog
        /\ UNCHANGED <<DEMO_MODE, modelFiles, SESSIONS, resp, built, metVars, simVars, thrVars, loadVars, storeVars, callVars>>

SegNext ==
    \E image \in SegImages, demo_mode \in BOOLEAN :
        \E point \in SegPoints(image) : SegmentWound(image, point, demo_mode)

SpecSeg == SegInit /\ [][SegNext]_vars

(***************************************************************************)
(* Metric extraction on its own: an image and two masks are given, the     *)
(* extractor is applied to them.                                           *)
(***************************************************************************)
\* side of the images and masks, in pixels
MetSide == 2

\* HSV colours around the thresholds of config.py
Palette ==
    <<[h |-> 10, s |-> 80, v |-> 100], [h |-> 11, s |-> 80, v |-> 100],
      [h |-> 170, s |-> 255, v |-> 255], [h |-> 5, s |-> 79, v |-> 100],
      [h |-> 30, s |-> 60, v |-> 180], [h |-> 30, s |-> 61, v |-> 255]>>

\* no image, the images of one colour, and images that mix the colours
MetImages ==
    {None} \cup
    {[h |-> MetSide, w |-> MetSide,
      px |-> [p \in Grid(MetSide, MetSide) |->
                 Palette[(((p[1] + MetSide * p[2]) * stride + k) % Len(Palette)) + 1]]] :
        k \in 0 .. Len(Palette) - 1, stride \in {0, 1}}

\* no mask, a mask of size 0, and masks of the image's shape: all zero, all
\* one, all 255, one pixel, one column, a checkerboard
MetMasks ==
    {None, Mask(0, 0, {}),
     Mask(MetSide, MetSide, {}),
     Mask(MetSide, MetSide, Grid(MetSide, MetSide)),
     [h |-> MetSide, w |-> MetSide, v |-> [p \in Grid(MetSide, MetSide) |-> 255]],
     Mask(MetSide, MetSide, {<<0, 0>>}),
     Mask(MetSide, MetSide, {p \in Grid(MetSide, MetSide) : p[1] = 0}),
     Mask(MetSide, MetSide, {p \in Grid(MetSide, MetSide) : (p[1] + p[2]) % 2 = 1})}

MetInit ==
    /\ DEMO_MODE = FALSE /\ modelFiles = FALSE
    /\ PipelineIdle /\ SegIdle /\ SimIdle /\ ThrIdle
    /\ metricsIn \in [image : MetImages, wound_mask : MetMasks, peri_mask : MetMasks]
    /\ metricsOut = None

ExtractMetrics ==
    /\ metricsOut = None
    /\ metricsOut' = get_debug_metrics(metricsIn.image, metricsIn.wound_mask,
                                       metricsIn.peri_mask)
    /\ UNCHANGED <<pipelineVars, segVars, metricsIn, simVars, thrVars, loadVars, storeVars, callVars>>

MetNext == ExtractMetrics

SpecMetrics == MetInit /\ [][MetNext]_vars

(***************************************************************************)
(* The session store under threads: each caller runs add_observation       *)
(* (session.py:24-33) statement by statement, the callers interleave       *)
(* between statements.  Nothing in the module takes a lock.                *)
(***************************************************************************)
\* callers, and calls they make in all
NThreads == 2
MaxCalls == 3

Threads == 1 .. NThreads

SessionIds == {"a", "b"}

Idle == [pc |-> "idle", session_id |-> NULL, obs |-> 0, ref |-> 0, ret |-> 0]

\* get_history on the threaded store
THistory(session_id) ==
    IF session_id \in DOMAIN tSessions THEN tHeap[tSessions[session_id]] ELSE <<>>

ThrInit ==
    /\ DEMO_MODE = FALSE /\ modelFiles = FALSE
    /\ PipelineIdle /\ SegIdle /\ MetIdle /\ SimIdle
    /\ thr = [t \in Threads |-> Idle]
    /\ tSessions = <<>> /\ tHeap = <<>> /\ arrived = <<>>
    /\ LoadIdle

\* a caller enters add_observation; the observation is named by its
\* arrival, prior holds the calls that had returned by then
TCall(t, session_id) ==
    /\ thr[t].pc = "idle"
    /\ Len(arrived) < MaxCalls
    /\ arrived' = Append(arrived,
                         [session_id |-> session_id, done |-> FALSE,
                          prior |-> {i \in 1 .. Len(arrived) : arrived[i].done}])
    /\ thr' = [thr EXCEPT ![t] = [pc |-> "check", session_id |-> session_id,
                                  obs |-> Len(arrived) + 1, ref |-> 0, ret |-> 0]]
    /\ UNCHANGED <<pipelineVars, segVars, metVars, simVars, loadVars, storeVars, callVars, tSessions, tHeap>>

\* if session_id not in _SESSIONS
TCheck(t) ==
    /\ thr[t].pc = "check"
    /\ thr' = [thr EXCEPT ![t].pc =
                  IF thr[t].session_id \notin DOMAIN tSessions THEN "create" ELSE "lookup"]
    /\ UNCHANGED <<pipelineVars, segVars, metVars, simVars, loadVars, storeVars, callVars, tSessions, tHeap, arrived>>

\* _SESSIONS[session_id] = []
TCreate(t) ==
    /\ thr[t].pc = "create"
    /\ tHeap' = Append(tHeap, <<>>)
    /\ tSessions' = (thr[t].session_id :> (Len(tHeap) + 1)) @@ tSessions
    /\ thr' = [thr EXCEPT ![t].pc = "lookup"]
    /\ UNCHANGED <<pipelineVars, segVars, metVars, simVars, loadVars, storeVars, callVars, arrived>>

\* _SESSIONS[session_id], the list the append is applied to
TLookup(t) ==
    /\ thr[t].pc = "lookup"
    /\ thr' = [thr EXCEPT ![t].ref = tSessions[thr[t].session_id], ![t].pc = "append"]
    /\ UNCHANGED <<pipelineVars, segVars, metVars, simVars, loadVars, storeVars, callVars, tSessions, tHeap, arrived>>

\* .append({...})
TAppend(t) ==
    /\ thr[t].pc = "append"
    /\ tHeap' = [tHeap EXCEPT ![thr[t].ref] = Append(@, thr[t].obs)]
    /\ thr' = [thr EXCEPT ![t].pc = "len"]
    /\ UNCHANGED <<pipelineVars, segVars, metVars, simVars, loadVars, storeVars, callVars, tSessions, arrived>>

\* return len(_SESSIONS[session_id])
TReturn(t) ==
    /\ thr[t].pc = "len"
    /\ thr' = [thr EXCEPT ![t] = [Idle EXCEPT !.ret = Len(THistory(thr[t].session_id))]]
    /\ arrived' = [arrived EXCEPT ![thr[t].obs].done = TRUE]
    /\ UNCHANGED <<pipelineVars, segVars, metVars, simVars, loadVars, storeVars, callVars, tSessions, tHeap>>

ThrNext ==
    \E t \in Threads :
        \/ \E session_id \in SessionIds : TCall(t, session_id)
        \/ TCheck(t)
        \/ TCreate(t)
        \/ TLookup(t)
        \/ TAppend(t)
        \/ TReturn(t)

SpecThreads == ThrInit /\ [][ThrNext]_vars

(***************************************************************************)
(* The predictor singleton under threads: each caller runs _get_predictor  *)
(* and load_model (segmentation.py:64-102, 212-225) statement by           *)
(* statement, as the first step of a segment_wound call with               *)
(* demo_mode=false.  Nothing in the module takes a lock.  The construction *)
(* MobileSAMPredictor() is taken as one step: it yields the one instance   *)
(* and initialises its fields the first time only.                         *)
(***************************************************************************)
LoadInit ==
    /\ DEMO_MODE = FALSE
    /\ modelFiles \in BOOLEAN
    /\ PipelineIdle /\ SegIdle /\ MetIdle /\ SimIdle
    /\ thr = <<>> /\ tSessions = <<>> /\ tHeap = <<>> /\ arrived = <<>>
    /\ StoreIdle
    /\ lThr = [t \in Threads |-> "idle"]
    /\ lShared = [_predictor |-> FALSE, _initialized |-> FALSE, model_loaded |-> FALSE,
                  encoder_sessions |-> 0, decoder_sessions |-> 0]

LoadFrame == UNCHANGED <<pipelineVars, segVars, metVars, simVars, thrVars, storeVars, callVars>>

\* a caller enters _get_predictor
LCall(t) ==
    /\ lThr[t] = "idle"
    /\ lThr' = [lThr EXCEPT ![t] = "check"]
    /\ UNCHANGED lShared /\ LoadFrame

\* if _predictor is None
LCheck(t) ==
    /\ lThr[t] = "check"
    /\ lThr' = [lThr EXCEPT ![t] = IF lShared._predictor THEN "return" ELSE "construct"]
    /\ UNCHANGED lShared /\ LoadFrame

\* _predictor = MobileSAMPredictor()
LConstruct(t) ==
    /\ lThr[t] = "construct"
    /\ lShared' = IF lShared._initialized
                      THEN [lShared EXCEPT !._predictor = TRUE]
                      ELSE [lShared EXCEPT !._predictor = TRUE, !._initialized = TRUE,
                                           !.model_loaded = FALSE]
    /\ lThr' = [lThr EXCEPT ![t] = "load_model"]
    /\ LoadFrame

\* load_model: if self.model_loaded: return True; the files are looked for
LLoadModel(t) ==
    /\ lThr[t] = "load_model"
    /\ lThr' = [lThr EXCEPT ![t] = IF lShared.model_loaded \/ ~modelFiles
                                       THEN "return" ELSE "encoder"]
    /\ UNCHANGED lShared /\ LoadFrame

\* self.encoder_session = ort.InferenceSession(encoder_path, ...)
LEncoder(t) ==
    /\ lThr[t] = "encoder"
    /\ lShared' = [lShared EXCEPT !.encoder_sessions = @ + 1]
    /\ lThr' = [lThr EXCEPT ![t] = "decoder"]
    /\ LoadFrame

\* self.decoder_session = ort.InferenceSession(decoder_path, ...)
LDecoder(t) ==
    /\ lThr[t] = "decoder"
    /\ lShared' = [lShared EXCEPT !.decoder_sessions = @ + 1]
    /\ lThr' = [lThr EXCEPT ![t] = "loaded"]
    /\ LoadFrame

\* self.model_loaded = True
LLoaded(t) ==
    /\ lThr[t] = "loaded"
    /\ lShared' = [lShared EXCEPT !.model_loaded = TRUE]
    /\ lThr' = [lThr EXCEPT ![t] = "return"]
    /\ LoadFrame

\* return _predictor
LReturn(t) ==
    /\ lThr[t] = "return"
    /\ lThr' = [lThr EXCEPT ![t] = "idle"]
    /\ UNCHANGED lShared /\ LoadFrame

LoadNext ==
    \E t \in Threads :
        \/ LCall(t)
        \/ LCheck(t)
        \/ LConstruct(t)
        \/ LLoadModel(t)
        \/ LEncoder(t)
        \/ LDecoder(t)
        \/ LLoaded(t)
        \/ LReturn(t)

SpecLoad == LoadInit /\ [][LoadNext]_vars

(***************************************************************************)
(* The session store on its own: add_observation and clear_session are     *)
(* called on any session, one call at a time.                              *)
(***************************************************************************)
StoreIds == {"a", "b", "c"}

\* areas the observations are drawn from, in tenths of cm^2
StoreAreas == {0, 120, 135}

StoreInit ==
    /\ DEMO_MODE = FALSE /\ modelFiles = FALSE
    /\ SESSIONS = <<>> /\ predictor = None /\ loads = 0 /\ resp = None /\ built = None
    /\ SegIdle /\ MetIdle /\ SimIdle /\ ThrIdle

StoreFrame ==
    UNCHANGED <<DEMO_MODE, modelFiles, predictor, loads, resp, built, segVars, metVars,
                simVars, thrVars, lThr, lShared, callVars>>

AddObservation(session_id, area) ==
    /\ TotalObs(SESSIONS) < MaxObs
    /\ SESSIONS' = add_observation(SESSIONS, session_id, area, 100, 10)
    /\ storeOp' = [op |-> "add_observation", session_id |-> session_id, before |-> SESSIONS]
    /\ firstArea' = IF session_id \in DOMAIN firstArea THEN firstArea
                     ELSE (session_id :> area) @@ firstArea
    /\ StoreFrame

ClearSession(session_id) ==
    /\ SESSIONS' = clear_session(SESSIONS, session_id)
    /\ storeOp' = [op |-> "clear_session", session_id |-> session_id, before |-> SESSIONS]
    /\ firstArea' = [k \in DOMAIN firstArea \ {session_id} |-> firstArea[k]]
    /\ StoreFrame

StoreNext ==
    \E session_id \in StoreIds :
        \/ \E area \in StoreAreas : AddObservation(session_id, area)
        \/ ClearSession(session_id)

SpecStore == StoreInit /\ [][StoreNext]_vars

(***************************************************************************)
(* build_frontend_response on its own: called with any store, any metrics  *)
(* of the extraction and any session id.                                   *)
(***************************************************************************)
\* the stores in which session "s" has n observations
RECURSIVE StoresOfLen(_)
StoresOfLen(n) ==
    IF n = 0 THEN {<<>>}
    ELSE {add_observation(S, "s", area, 100, 10) :
            S \in StoresOfLen(n - 1), area \in {110, 120, 1000}}

AdapterStores == UNION {StoresOfLen(n) : n \in 0 .. (MaxObs - 1)}

\* the metrics of the extraction: each of the three may be None or NaN
\* (bad names it); a NaN compares false with every threshold, as the 0
\* its field holds here does
AdapterMetrics ==
    {[area_cm2 |-> area, redness_pct |-> redness, pus_pct |-> pus, bad |-> {}] :
        area \in {120, 123, 135}, redness \in {100, 200, 300}, pus \in {10, 50, 100}}
    \cup {[[area_cm2 |-> 120, redness_pct |-> 100, pus_pct |-> 10, bad |-> {<<f, k>>}]
              EXCEPT ![f] = 0] :
            f \in {"area_cm2", "redness_pct", "pus_pct"}, k \in {"None", "NaN"}}

AdapterInit ==
    /\ DEMO_MODE = FALSE /\ modelFiles = FALSE
    /\ PipelineIdle /\ SegIdle /\ MetIdle /\ SimIdle /\ ThrIdle

\* one call in a behaviour
BuildFrontendResponse(S, metrics_data, metadata, enable_simulation, session_id) ==
    /\ adapterIn = None
    /\ adapterIn' = [S |-> S, metrics_data |-> metrics_data, metadata |-> metadata,
                     enable_simulation |-> enable_simulation, session_id |-> session_id]
    /\ \E r \in {build_frontend_response(S, metrics_data, metadata, FALSE, FALSE,
                                          enable_simulation, session_id)} :
           adapterOut' = IF r.kind = "raise" THEN r
                         ELSE [kind |-> "ok",
                               measurement |-> Deref(r.heap, r.measurement),
                               simulation |-> DerefSimulation(r.heap, r.simulation)]
    /\ UNCHANGED <<pipelineVars, segVars, metVars, simVars, thrVars, loadVars, storeVars,
                   trajIn, trajOut>>

AdapterNext ==
    \E S \in AdapterStores, metrics_data \in AdapterMetrics, o \in RequestOptions,
       session_id \in {"s", "t"} :
        BuildFrontendResponse(S, metrics_data, o[1], o[2], session_id)

SpecAdapter == AdapterInit /\ [][AdapterNext]_vars

(***************************************************************************)
(* analyze_trajectory on its own: called with any history of areas and     *)
(* either segmentation mode.                                               *)
(***************************************************************************)
\* the area histories of n days, in tenths of cm^2
RECURSIVE HistoriesOfLen(_)
HistoriesOfLen(n) ==
    IF n = 0 THEN {<<>>}
    ELSE {Append(h, area) : h \in HistoriesOfLen(n - 1), area \in {0, 110, 120, 123, 135}}

AreaHistories == UNION {HistoriesOfLen(n) : n \in 0 .. MaxObs}

TrajInit ==
    /\ DEMO_MODE = FALSE /\ modelFiles = FALSE
    /\ PipelineIdle /\ SegIdle /\ MetIdle /\ SimIdle /\ ThrIdle

\* one call in a behaviour
AnalyzeTrajectory(area_history, segmentation_mode) ==
    /\ trajIn = None
    /\ trajIn' = [area_history |-> area_history, segmentation_mode |-> segmentation_mode]
    /\ trajOut' = analyze_trajectory(area_history, segmentation_mode)
    /\ UNCHANGED <<pipelineVars, segVars, metVars, simVars, thrVars, loadVars, storeVars,
                   adapterIn, adapterOut>>

TrajNext ==
    \E area_history \in AreaHistories, segmentation_mode \in {"normal", "fallback"} :
        AnalyzeTrajectory(area_history, segmentation_mode)

SpecTrajectory == TrajInit /\ [][TrajNext]_vars

(***************************************************************************)
(* Properties                                                              *)
(***************************************************************************)

\* C3: run_hypothetical_simulation leaves the measurement untouched: after
\* the call the measurement's area_cm2, redness_pct, pus_pct, risk_level and
\* the contents of trajectory.expected and trajectory.actual are what they
\* were before it, for every measurement and every patient metadata.
C3_MeasurementUntouched ==
    simResult # None => Deref(simHeap, simMeasurement) = simBefore

\* a simulation with all three adjustments ran over a five-point curve
C3_Witness ==
    /\ simResult # None
    /\ simResult.enabled
    /\ Len(simResult.assumptions_used) = 3
    /\ simMeasurement.area_cm2 = 120
    /\ Len(simHeap[simResult.reference_curve]) = 5
    /\ simHeap[simResult.reference_curve] # simHeap[simMeasurement.expected]

RespOk == resp # None /\ resp.kind = "ok"

C2_BaselineGreen ==
    (RespOk /\ resp.metadata.day_index = 1)
        => (built.risk_level = "GREEN" /\ built.deviation_cm2 = 0)

\* a first observation whose redness and exudate are above the RED limits
C2_Witness ==
    /\ RespOk
    /\ resp.metadata.day_index = 1
    /\ built.redness_pct > RISK_THRESHOLDS.AMBER.redness_max
    /\ built.pus_pct > RISK_THRESHOLDS.AMBER.pus_max

HasReferenceAssumption(sim) ==
    \E i \in 1 .. Len(sim.assumptions_used) :
        sim.assumptions_used[i] = "Reference-normalized area (1-euro coin benchmark)"

SegCalled == segIn # None

\* C5: whatever the image, the point and demo_mode, the two masks
\* segment_wound returns have the image's H x W shape, hold only 0 and 1,
\* and no pixel is set in both
C5_MasksBinaryDisjoint ==
    SegCalled =>
        /\ (segIn.image # None /\ Len(segIn.image.shape) >= 2) =>
               /\ <<segOut.wound_mask.h, segOut.wound_mask.w>> = SubSeq(segIn.image.shape, 1, 2)
               /\ <<segOut.peri_wound_mask.h, segOut.peri_wound_mask.w>>
                      = SubSeq(segIn.image.shape, 1, 2)
        /\ DOMAIN segOut.wound_mask.v = Grid(segOut.wound_mask.h, segOut.wound_mask.w)
        /\ DOMAIN segOut.peri_wound_mask.v = DOMAIN segOut.wound_mask.v
        /\ \A p \in DOMAIN segOut.wound_mask.v :
               /\ segOut.wound_mask.v[p] \in {0, 1}
               /\ segOut.peri_wound_mask.v[p] \in {0, 1}
               /\ ~(segOut.wound_mask.v[p] = 1 /\ segOut.peri_wound_mask.v[p] = 1)

C5_Witness ==
    /\ SegCalled
    /\ segOut.path = "model"
    /\ NonZero(segOut.wound_mask) # {}
    /\ NonZero(segOut.peri_wound_mask) # {}

\* the mask the oracle predicted on the last call, thresholded and at the
\* image's size
PredictedMask ==
    LET m == segIn.oracle.mask
        on == {p \in DOMAIN m.v : m.v[p] > 0}
        h == segIn.image.shape[1]
        w == segIn.image.shape[2]
    IN  Mask(h, w, {p \in Grid(h, w) : <<(p[1] * m.w) \div w, (p[2] * m.h) \div h>> \in on})

\* the conditions under which the model's mask is to be returned
ModelMaskAccepted ==
    /\ ~segIn.demo_mode
    /\ modelFiles
    /\ segIn.oracle.kind = "masks"
    /\ NonZero(PredictedMask) # {}
    /\ 10 * Cardinality(NonZero(PredictedMask))
           <= 9 * segIn.image.shape[1] * segIn.image.shape[2]

\* the wound mask is a disc of the fallback radius, cut at the image border
IsFallbackCircle(mask) ==
    \E c \in (0 .. mask.w) \X (0 .. mask.h) :
        \A p \in Grid(mask.h, mask.w) : (mask.v[p] # 0) <=> InDisc(p, c[1], c[2], Radius)

\* C6: segment_wound returns the model's mask exactly when demo_mode is
\* false, the model is loaded, the prediction did not raise and the
\* predicted mask is non-empty and covers at most 90% of the image; in
\* every other case (an exception of the oracle included) it returns the
\* circular fallback masks
C6_ModelMaskIffAccepted ==
    SegCalled =>
        IF ModelMaskAccepted
            THEN segOut.path = "model" /\ segOut.wound_mask = PredictedMask
            ELSE segOut.path = "fallback" /\ IsFallbackCircle(segOut.wound_mask)

C6_Witness ==
    /\ SegCalled
    /\ ~segIn.demo_mode
    /\ segIn.oracle.kind = "masks"
    /\ 10 * Cardinality(NonZero(PredictedMask))
           = 9 * segIn.image.shape[1] * segIn.image.shape[2]
    /\ segOut.path = "model"

\* C7: a demo_mode=true call with the image and point of an earlier
\* demo_mode=true call returns the same two masks, whatever was called in
\* between
C7_DemoDeterministic ==
    (SegCalled /\ segIn.demo_mode /\ <<segIn.image, segIn.point>> \in DOMAIN demoLog)
        => /\ segOut.wound_mask = demoLog[<<segIn.image, segIn.point>>].masks.wound_mask
           /\ segOut.peri_wound_mask
                  = demoLog[<<segIn.image, segIn.point>>].masks.peri_wound_mask

C7_Witness ==
    /\ SegCalled /\ segIn.demo_mode
    /\ <<segIn.image, segIn.point>> \in DOMAIN demoLog
    /\ demoLog[<<segIn.image, segIn.point>>].predictor = None
    /\ predictor # None /\ predictor.model_loaded

\* C8: whatever the image size and the point, the fallback wound mask is a
\* complete disc of the fallback radius: every pixel of the disc around
\* its centre lies inside the image
C8_FallbackCircleComplete ==
    (SegCalled /\ segOut.path = "fallback")
        => \E c \in Grid(segOut.wound_mask.h, segOut.wound_mask.w) :
              /\ c[1] - Radius >= 0 /\ c[1] + Radius < segOut.wound_mask.w
              /\ c[2] - Radius >= 0 /\ c[2] + Radius < segOut.wound_mask.h
              /\ \A p \in Grid(segOut.wound_mask.h, segOut.wound_mask.w) :
                     (segOut.wound_mask.v[p] # 0) <=> InDisc(p, c[1], c[2], Radius)

RegionEmpty(mask) == mask = None \/ NonZero(mask) = {}

\* C9: for every image and masks of its shape, all-zero masks included,
\* the extractor returns 0 <= redness_pct <= 100, 0 <= pus_pct <= 100 and
\* area_cm2 >= 0, and a percentage whose region has no pixel is exactly 0
C9_MetricBounds ==
    metricsOut # None =>
        /\ metricsOut.redness_pct >= 0 /\ metricsOut.redness_pct <= 1000
        /\ metricsOut.pus_pct >= 0 /\ metricsOut.pus_pct <= 1000
        /\ metricsOut.area_cm2 >= 0
        /\ RegionEmpty(metricsIn.peri_mask) => metricsOut.redness_pct = 0
        /\ RegionEmpty(metricsIn.wound_mask) => metricsOut.pus_pct = 0

C9_Witness ==
    /\ metricsOut # None
    /\ metricsIn.image # None
    /\ metricsIn.wound_mask = Mask(MetSide, MetSide, {})
    /\ metricsIn.peri_mask = Mask(MetSide, MetSide, {})
    /\ metricsOut.area_cm2 = 0 /\ metricsOut.redness_pct = 0 /\ metricsOut.pus_pct = 0

\* the calls that arrived for a session
ArrivedFor(session_id) ==
    {i \in 1 .. Len(arrived) : arrived[i].session_id = session_id}

Quiescent(session_id) == \A i \in ArrivedFor(session_id) : arrived[i].done

\* C10: once the n add_observation calls made on a session have all
\* returned (they may have overlapped, the first ones racing to create the
\* session), its history holds exactly their n observations, each once,
\* and a call that returned before another arrived comes before it
C10_EveryAppendOnce ==
    \A session_id \in SessionIds :
        (thr # <<>> /\ Quiescent(session_id)) =>
            LET history == THistory(session_id)
            IN  /\ Len(history) = Cardinality(ArrivedFor(session_id))
                /\ \A i \in ArrivedFor(session_id) :
                       Cardinality({k \in 1 .. Len(history) : history[k] = i}) = 1
                /\ \A a, b \in 1 .. Len(history) :
                       a < b => history[b] \notin arrived[history[a]].prior

\* C11: whatever the interleaving of the first calls of segment_wound with
\* demo_mode=false, the encoder session and the decoder session are
\* created at most once in the process
C11_LoadAtMostOnce ==
    lShared # None => (lShared.encoder_sessions <= 1 /\ lShared.decoder_sessions <= 1)

\* C12: add_observation and clear_session on one session id leave the
\* history, the baseline and the count of every other session id as they
\* were before the call
C12_OtherSessionsUnchanged ==
    storeOp # None =>
        \A k \in StoreIds \ {storeOp.session_id} :
            /\ get_history(SESSIONS, k) = get_history(storeOp.before, k)
            /\ get_baseline_area(SESSIONS, k) = get_baseline_area(storeOp.before, k)
            /\ Len(get_history(SESSIONS, k)) = Len(get_history(storeOp.before, k))

C12_Witness ==
    /\ storeOp # None
    /\ storeOp.op = "clear_session"
    /\ Len(get_history(storeOp.before, storeOp.session_id)) = 1
    /\ \E k \in StoreIds \ {storeOp.session_id} : Len(get_history(SESSIONS, k)) = 2

\* C13: with no clear_session since, get_baseline_area of a session is the
\* area of the first observation appended to it, however many followed;
\* it is 0 for a session with no observations
C13_BaselineIsFirstArea ==
    \A k \in StoreIds :
        get_baseline_area(SESSIONS, k) = IF k \in DOMAIN firstArea THEN firstArea[k] ELSE 0

C13_Witness ==
    /\ storeOp # None
    /\ \E k \in StoreIds :
          /\ Len(get_history(SESSIONS, k)) = 3
          /\ get_history(SESSIONS, k)[1].area = 120
          /\ get_history(SESSIONS, k)[3].area = 135
          /\ get_baseline_area(SESSIONS, k) = 120
    /\ \E k \in StoreIds : k \notin DOMAIN SESSIONS /\ get_baseline_area(SESSIONS, k) = 0

\* C14: in every response build_frontend_response builds, a risk_level
\* other than GREEN comes with an alert_reason that is a non-empty string,
\* whatever list of reasons the rule engine produced
C14_AlertReasonPresent ==
    /\ (adapterOut # None /\ adapterOut.kind = "ok"
            /\ adapterOut.measurement.risk_level # "GREEN")
        => adapterOut.measurement.alert_reason \notin {NULL, ""}
    /\ \A risk_assessment \in RiskAssessments :
           risk_assessment.risk_level # "GREEN" => AlertReason(risk_assessment) \notin {NULL, ""}

C14_Witness ==
    /\ adapterOut # None /\ adapterOut.kind = "ok"
    /\ adapterOut.measurement.risk_level = "RED"
    /\ adapterOut.measurement.alert_reason \notin {NULL, ""}

\* C15: when one of area_cm2, redness_pct and pus_pct of the extraction is
\* None or NaN, build_frontend_response raises and returns no response
C15_BadMetricRaises ==
    (adapterIn # None /\ adapterIn.metrics_data.bad # {}) => adapterOut.kind = "raise"

\* C16: for a session id with no stored history build_frontend_response
\* does not raise and returns risk_level GREEN and deviation_cm2 0
C16_NoHistoryIsBaseline ==
    (adapterIn # None /\ adapterIn.metrics_data.bad = {}
        /\ get_history(adapterIn.S, adapterIn.session_id) = <<>>)
    => /\ adapterOut.kind = "ok"
       /\ adapterOut.measurement.risk_level = "GREEN"
       /\ adapterOut.measurement.deviation_cm2 = 0

\* C17: segment_wound called with a malformed image (missing, or not an
\* H x W x 3 array) fails before any mask is generated and returns no masks
C17_MalformedImageNoMasks ==
    (SegCalled /\ ~Valid3Channel(segIn.image))
        => (segOut.wound_mask = None /\ segOut.peri_wound_mask = None)

C19_SingleObservationGreen ==
    (trajIn # None /\ trajIn.segmentation_mode = "normal" /\ Len(trajIn.area_history) = 1)
    => /\ trajOut.risk_level = RISK_GREEN
       /\ trajOut.alert = FALSE
       /\ trajOut.trajectory.expected = <<trajIn.area_history[1]>>

\* the integer square root, by bisection
RECURSIVE SqrtBetween(_, _, _)
SqrtBetween(n, lo, hi) ==
    IF lo = hi THEN lo
    ELSE LET mid == (lo + hi + 1) \div 2
         IN  IF mid * mid <= n THEN SqrtBetween(n, mid, hi) ELSE SqrtBetween(n, lo, mid - 1)

ISqrt(n) == SqrtBetween(n, 0, Min(n, 46340))

\* C20: the expected curve follows the Gilman model, pi * max(0, sqrt(A0/pi)
\* - k*t)^2: the radius shrinks by the same amount every day while the
\* area is positive.  The radius is measured by the square root of the
\* area (in thousandths), and the steps are compared up to what rounding
\* the areas to one decimal can change.
C20_GilmanRadiusLinear ==
    (adapterOut # None /\ adapterOut.kind = "ok")
    => LET e == adapterOut.measurement.expected
           root(t) == ISqrt(e[t] * 1000000)
           err(t) == (250000 \div root(t)) + 2
           step(t) == root(t) - root(t + 1)
       IN  \A t \in 2 .. (Len(e) - 1) :
               e[t + 1] > 0 => Abs(step(t) - step(1)) <= err(1) + err(2) + err(t) + err(t + 1)

SimRan == simResult # None /\ simMetadata # None

\* expected[0] + (expected[i] - expected[0]) * velocityMultiplier in units
\* of 0.00001 cm^2, the multiplier being 1.0 times 0.80 for a smoker times
\* 0.70 for diabetes
ScaledExpected(i) ==
    LET e == simHeap[simMeasurement.expected]
        multiplier == (IF simMetadata.is_smoker THEN 80 ELSE 100)
                      * (IF simMetadata.has_diabetes THEN 70 ELSE 100)
    IN  e[1] * 10000 + (e[i] - e[1]) * multiplier

\* C22 as stated: every reference_curve[i] equals expected[0] +
\* (expected[i] - expected[0]) * velocityMultiplier, the two factors
\* compounding
C22_ReferenceCurveExact ==
    SimRan =>
        LET ref == simHeap[simResult.reference_curve]
        IN  /\ Len(ref) = Len(simHeap[simMeasurement.expected])
            /\ \A i \in 1 .. Len(ref) : ref[i] * 1000 = ScaledExpected(i)

\* C22: every reference_curve[i] is expected[0] + (expected[i] -
\* expected[0]) * velocityMultiplier rounded to two decimals, the
\* multiplier being 1.0 times 0.80 if is_smoker times 0.70 if has_diabetes;
\* reference_curve[0] is expected[0] for every metadata
C22_ReferenceCurveRounded ==
    SimRan =>
        LET ref == simHeap[simResult.reference_curve]
            e == simHeap[simMeasurement.expected]
        IN  /\ Len(ref) = Len(e)
            /\ \A i \in 1 .. Len(ref) : ref[i] = RoundDiv(ScaledExpected(i), 1000)
            /\ Len(ref) > 0 => ref[1] = 10 * e[1]

C22_Witness ==
    /\ SimRan
    /\ simMetadata.is_smoker /\ simMetadata.has_diabetes
    /\ simHeap[simMeasurement.expected] = <<120, 108, 97, 87, 79>>
    /\ simHeap[simResult.reference_curve] = <<1200, 1133, 1071, 1015, 970>>

\* C23 as stated: when the reference curve has at least two points,
\* extrapolated_curve[0] - reference_curve[-1] equals reference_curve[-1] -
\* reference_curve[-2], extrapolated_curve being the list in the result
C23_ContinuityAtIndexZero ==
    (SimRan /\ Len(simHeap[simResult.reference_curve]) >= 2)
    => LET ref == simHeap[simResult.reference_curve]
           ext == simHeap[simResult.extrapolated_curve]
           n == Len(ref)
       IN  ext[1] - ref[n] = ref[n] - ref[n - 1]

\* C23: when the reference curve has at least two points, the
\* extrapolated_curve of the result is the reference curve followed by the
\* extrapolated points, and the first of these minus reference_curve[-1]
\* equals reference_curve[-1] - reference_curve[-2], unless that point
\* would be negative, in which case it is 0
C23_ContinuityAtFirstNewPoint ==
    (SimRan /\ Len(simHeap[simResult.reference_curve]) >= 2)
    => LET ref == simHeap[simResult.reference_curve]
           ext == simHeap[simResult.extrapolated_curve]
           n == Len(ref)
       IN  /\ Len(ext) = n + EXTRAPOLATION_STEPS
           /\ SubSeq(ext, 1, n) = ref
           /\ IF 2 * ref[n] - ref[n - 1] >= 0
                  THEN ext[n + 1] - ref[n] = ref[n] - ref[n - 1]
                  ELSE ext[n + 1] = 0

C23_Witness ==
    /\ SimRan
    /\ simHeap[simResult.reference_curve] = <<1200, 1133, 1071, 1015, 970>>
    /\ simHeap[simResult.extrapolated_curve] = <<1200, 1133, 1071, 1015, 970, 925, 880, 835>>

\* the place of an entry of assumptions_used in the order smoking,
\* diabetes, reference object; 0 for the default entry
AssumptionRank(entry) ==
    CASE entry = "Smoking adjustment: -20% healing velocity" -> 1
      [] entry = "Diabetes adjustment: -30% healing velocity" -> 2
      [] entry = "Reference-normalized area (1-euro coin benchmark)" -> 3
      [] OTHER -> 0

\* C24: assumptions_used holds exactly one entry per adjustment applied
\* (smoking, diabetes, reference object), in that order, so its length is
\* the number of true flags of the metadata; when none is true it holds
\* exactly the default no-metadata entry
C24_AssumptionsEnumerated ==
    SimRan =>
        LET a == simResult.assumptions_used
            ranks == {AssumptionRank(a[i]) : i \in 1 .. Len(a)}
            applied == (IF simMetadata.is_smoker THEN {1} ELSE {})
                       \cup (IF simMetadata.has_diabetes THEN {2} ELSE {})
                       \cup (IF simMetadata.has_reference_object THEN {3} ELSE {})
        IN  IF applied = {}
                THEN a = <<"Base healing model (no metadata)">>
                ELSE /\ Len(a) = Cardinality(applied)
                     /\ ranks = applied
                     /\ \A i, j \in 1 .. Len(a) :
                            i < j => AssumptionRank(a[i]) < AssumptionRank(a[j])

C24_Witness ==
    /\ SimRan
    /\ ~simMetadata.is_smoker /\ simMetadata.has_diabetes /\ simMetadata.has_reference_object
    /\ simResult.assumptions_used = <<"Diabetes adjustment: -30% healing velocity",
                                      "Reference-normalized area (1-euro coin benchmark)">>

AdapterOk == adapterOut # None /\ adapterOut.kind = "ok"

\* the measurement the same call builds with simulation enabled and the
\* given metadata
MeasurementWithSimulation(metadata) ==
    LET r == build_frontend_response(adapterIn.S, adapterIn.metrics_data, metadata, FALSE,
                                     FALSE, TRUE, adapterIn.session_id)
    IN  Deref(r.heap, r.measurement)

\* C25: the simulation of the response is non-null iff enable_simulation is
\* true and patient metadata is present; otherwise it is null and the
\* measurement layer is the one the call builds with simulation enabled
C25_SimulationToggle ==
    AdapterOk =>
        /\ adapterOut.simulation # None
               <=> (adapterIn.enable_simulation /\ adapterIn.metadata # None)
        /\ adapterOut.simulation = None =>
               \A o \in RequestOptions :
                   o[1] # None => adapterOut.measurement = MeasurementWithSimulation(o[1])

C25_Witness ==
    /\ AdapterOk
    /\ ~adapterIn.enable_simulation /\ adapterIn.metadata # None
    /\ adapterOut.simulation = None
    /\ Len(adapterOut.measurement.actual) = 2
    /\ adapterOut.measurement.risk_level = "RED"

\* a successful call appended one observation to session_id, touched no
\* other session, and its response counts the observations of session_id
AppendedAndCounted(session_id) ==
    /\ session_id \in DOMAIN SESSIONS'
    /\ Len(SESSIONS'[session_id]) = Len(get_history(SESSIONS, session_id)) + 1
    /\ \A k \in DOMAIN SESSIONS \ {session_id} : k \in DOMAIN SESSIONS' /\ SESSIONS'[k] = SESSIONS[k]
    /\ resp'.metadata.observation_count = Len(SESSIONS'[session_id])
    /\ resp'.metadata.day_index = Len(SESSIONS'[session_id])
    /\ Len(resp'.measurement.actual) = Len(SESSIONS'[session_id])

PipelineCallsAppendAndCount ==
    [][(resp' # None /\ resp'.kind = "ok" /\ resp'.path # "mock")
           => \E session_id \in {"default_session", "default"} :
                  AppendedAndCounted(session_id)]_pipelineVars

\* the documented partition, percentages in tenths of a percent: RED iff
\* trend > 0 or deviation > 20; otherwise AMBER iff -5 <= trend <= 0 or
\* deviation > 10; otherwise GREEN
DocumentedLevel(deviation_pct, trend_pct) ==
    IF trend_pct > 0 \/ deviation_pct > 200 THEN "RED"
    ELSE IF (-50 <= trend_pct /\ trend_pct <= 0) \/ deviation_pct > 100 THEN "AMBER"
    ELSE "GREEN"

\* percentages around every threshold
PctGrid == {-1000, -60, -51, -50, -49, -1, 0, 1, 99, 100, 101, 199, 200, 201, 1000}

\* C27: calculate_risk_level returns RED iff trend_pct > 0 or deviation_pct
\* > 20; otherwise AMBER iff -5 <= trend_pct <= 0 or deviation_pct > 10;
\* otherwise GREEN, so GREEN iff trend_pct < -5 and deviation_pct <= 10;
\* and analyze_trajectory sets alert true iff the level is AMBER or RED
C27_RiskLevelPartition ==
    /\ \A deviation_pct, trend_pct \in PctGrid :
           /\ calculate_risk_level(deviation_pct, trend_pct)[1]
                  = DocumentedLevel(deviation_pct, trend_pct)
           /\ calculate_risk_level(deviation_pct, trend_pct)[1] = "GREEN"
                  <=> (trend_pct < -50 /\ deviation_pct <= 100)
    /\ (trajIn # None /\ trajIn.segmentation_mode = "normal" /\ trajIn.area_history # <<>>)
        => LET c == compare_trajectories(trajOut.trajectory.expected, trajOut.trajectory.actual)
           IN  /\ trajOut.risk_level = DocumentedLevel(c.deviation_pct, c.trend_pct)
               /\ trajOut.alert <=> trajOut.risk_level \in {"AMBER", "RED"}
    /\ (trajIn # None /\ trajIn.segmentation_mode = "normal" /\ trajIn.area_history = <<>>)
        => (trajOut.risk_level = "GREEN" /\ ~trajOut.alert)

\* AMBER by the deviation alone: the area fell by more than 5 % and is more
\* than 10 % above the expected curve
C27_Witness ==
    /\ trajIn # None /\ trajIn.segmentation_mode = "normal"
    /\ trajIn.area_history = <<120, 135, 110>>
    /\ trajOut.risk_level = "AMBER" /\ trajOut.alert
    /\ trajOut.reason = "Healing progress is slower than expected"

C30_LoadAttemptedByFirstCallOnly ==
    [][~modelFiles =>
          \A t \in Threads :
              (lThr[t] = "construct" /\ lThr'[t] = "load_model") => ~lShared._predictor]_vars

====
